---- MODULE Spec2Model ----
(***************************************************************************)
(* Fair Value Engine: the estimator of pricing.py (remove_outliers_iqr,   *)
(* trimmed_mean, confidence_score, fair_value) and the two request        *)
(* handlers of main.py that write to the database (/submit and            *)
(* /api/fair-value/{item_id}).                                             *)
(*                                                                         *)
(* Numbers.  A price is an integer.  Every intermediate statistic is an   *)
(* exact rational <<num, den>> with den > 0, so the quartiles, the median,*)
(* the means and the blend are computed without loss; the three result    *)
(* fields are integers counting hundredths, produced by round2.  The two  *)
(* places where binary64 arithmetic decides a comparison differently from *)
(* the exact value are modelled by what binary64 does (outlier_ratio_lt)  *)
(* and by a separate value (NaN).                                          *)
(***************************************************************************)
EXTENDS Integers, Sequences, FiniteSets

VARIABLES
    price_estimates,     \* table price_estimates: rows in insertion order
    fair_value_history,  \* table fair_value_history: rows in insertion order
    response,            \* what the last request answered
    fn,                  \* estimator harness: the function under call
    prices,              \* estimator harness: the list argument
    permuted,            \* estimator harness: a rearrangement of prices
    trim_ratio,          \* estimator harness: trimmed_mean's trim_ratio
    used_points,         \* estimator harness: confidence_score's used_points
    pc,                  \* estimator harness: "call", "again" or "done"
    ret,                 \* estimator harness: what the call returned
    ret_permuted         \* estimator harness: what the call on permuted returned

vars == <<price_estimates, fair_value_history, response,
          fn, prices, permuted, trim_ratio, used_points, pc, ret, ret_permuted>>

app_vars == <<price_estimates, fair_value_history, response>>
fn_vars == <<fn, prices, permuted, trim_ratio, used_points, pc, ret, ret_permuted>>

-----------------------------------------------------------------------------
(* Bounds of the model. *)

\* longest list drawn position by position from Values
MaxLen == 4
\* longest run of one observation in a list made of two runs
MaxRun == 12
\* longest second run in a list given to fair_value
MaxTail == 3
\* most rows the price_estimates table holds
MaxRows == 4
\* most rows the fair_value_history table holds
MaxHistory == 2

\* observations the short lists are drawn from
Values == {0, 1, 2, 3, 10}

-----------------------------------------------------------------------------
(* Floating point values that are not prices. *)

\* float('nan'): an integer no price of the model takes
NaN == -9999999
\* a finite float above 1_000_000_000_000, the limit of /submit (say 1e13):
\* an integer above every price of the model
HUGE == 1000000

IsNaN(x) == x = NaN

HasNaN(s) == \E i \in 1..Len(s) : IsNaN(s[i])

-----------------------------------------------------------------------------
(* Sequences. *)

RECURSIVE Sum(_)
Sum(s) == IF s = <<>> THEN 0 ELSE Head(s) + Sum(Tail(s))

RECURSIVE SumSq(_)
SumSq(s) == IF s = <<>> THEN 0 ELSE Head(s) * Head(s) + SumSq(Tail(s))

RECURSIVE Insert(_, _)
Insert(x, s) ==
    IF s = <<>> THEN <<x>>
    ELSE IF x <= Head(s) THEN <<x>> \o s
    ELSE <<Head(s)>> \o Insert(x, Tail(s))

\* np.sort: ascending
RECURSIVE np_sort(_)
np_sort(s) == IF s = <<>> THEN <<>> ELSE Insert(Head(s), np_sort(Tail(s)))

Count(s, v) == Cardinality({i \in 1..Len(s) : s[i] = v})

-----------------------------------------------------------------------------
(* Rationals <<num, den>>, den > 0. *)

Num(r) == r[1]
Den(r) == r[2]

\* int(x) of a float: truncation toward zero
int_trunc(r) ==
    IF Num(r) >= 0 THEN Num(r) \div Den(r) ELSE -((-Num(r)) \div Den(r))

\* round(x, 2): the nearest hundredth, a tie going to the even hundredth;
\* the result counts hundredths
round2(r) ==
    LET f == (100 * Num(r)) \div Den(r)
        m == (100 * Num(r)) % Den(r)
    IN  IF 2 * m < Den(r) THEN f
        ELSE IF 2 * m > Den(r) THEN f + 1
        ELSE IF f % 2 = 0 THEN f ELSE f + 1

-----------------------------------------------------------------------------
(* numpy statistics on a list without NaN. *)

\* np.mean
np_mean(s) == <<Sum(s), Len(s)>>

\* a median taken without sorting first
np_median_unsorted(s) ==
    LET n == Len(s)
    IN  IF n % 2 = 1 THEN <<s[(n + 1) \div 2], 1>>
        ELSE <<s[n \div 2] + s[n \div 2 + 1], 2>>

\* np.median: the middle value of the sorted list, or the mean of its two
\* middle values
np_median(s) ==
    LET a == np_sort(s)
        n == Len(a)
    IN  IF n % 2 = 1 THEN <<a[(n + 1) \div 2], 1>>
        ELSE <<a[n \div 2] + a[n \div 2 + 1], 2>>

\* a nearest-rank percentile
np_percentile_nearest(s, q) ==
    LET a == np_sort(s)
        n == Len(a)
        k == ((n - 1) * q) \div 100
        g == ((n - 1) * q) % 100
    IN  IF 2 * g < 100 THEN <<100 * a[k + 1], 100>> ELSE <<100 * a[k + 2], 100>>

\* np.percentile(s, q), method "linear": the virtual index (n - 1) * q / 100
\* into the sorted list, interpolated between its two neighbours
np_percentile(s, q) ==
    LET a == np_sort(s)
        n == Len(a)
        k == ((n - 1) * q) \div 100
        g == ((n - 1) * q) % 100
    IN  IF g = 0 THEN <<100 * a[k + 1], 100>>
        ELSE <<(100 - g) * a[k + 1] + g * a[k + 2], 100>>

-----------------------------------------------------------------------------
(* pricing.py *)

\* the default of trimmed_mean's trim_ratio, 0.1
TRIM_RATIO_DEFAULT == <<1, 10>>

\* what a call gives back: the exception it raised, or the value it returned
Raise(msg) == [raised |-> msg, value |-> <<>>]
Return(v) == [raised |-> "", value |-> <<v>>]

\* an exclusive lower bound
above_lower_strict(x, q1, q3) ==
    200 * x > 2 * Num(q1) - 3 * (Num(q3) - Num(q1))

\* prices >= lower_bound, lower_bound = q1 - 1.5 * iqr, with both sides
\* multiplied by 200 (the quartiles come with denominator 100)
above_lower(x, q1, q3) ==
    200 * x >= 2 * Num(q1) - 3 * (Num(q3) - Num(q1))

\* an exclusive upper bound
below_upper_strict(x, q1, q3) ==
    200 * x < 2 * Num(q3) + 3 * (Num(q3) - Num(q1))

\* prices <= upper_bound, upper_bound = q3 + 1.5 * iqr, with both sides
\* multiplied by 200
below_upper(x, q1, q3) ==
    200 * x <= 2 * Num(q3) + 3 * (Num(q3) - Num(q1))

\* a filter that forgets the lower bound
remove_outliers_upper_only(s) ==
    IF HasNaN(s) THEN <<>>
    ELSE LET q1 == np_percentile(s, 25)
             q3 == np_percentile(s, 75)
             keep(x) == below_upper(x, q1, q3)
         IN  SelectSeq(s, keep)

\* a NaN among the prices makes both percentiles, and so both bounds, NaN:
\* every comparison with them is False and nothing is kept
remove_outliers_iqr(s) ==
    IF HasNaN(s) THEN <<>>
    ELSE LET q1 == np_percentile(s, 25)
             q3 == np_percentile(s, 75)
             keep(x) == above_lower(x, q1, q3) /\ below_upper(x, q1, q3)
         IN  SelectSeq(s, keep)

\* a trimmed mean without the n <= 2 * trim_count case
trimmed_mean_no_fallback(s, ratio) ==
    LET a == np_sort(s)
        n == Len(a)
        trim_count == int_trunc(<<n * Num(ratio), Den(ratio)>>)
    IN  np_mean(SubSeq(a, trim_count + 1, n - trim_count))

\* trim_count = int(n * trim_ratio)
trimmed_mean(s, ratio) ==
    LET a == np_sort(s)
        n == Len(a)
        trim_count == int_trunc(<<n * Num(ratio), Den(ratio)>>)
    IN  IF n <= 2 * trim_count THEN np_mean(a)
        ELSE np_mean(SubSeq(a, trim_count + 1, n - trim_count))

\* 1 - (used_points / total_points) < 0.2 as binary64 decides it.  The quotient
\* 4/5 rounds up to 0.8000000000000000444, one minus it is 0.19999999999999996
\* and that is below the double 0.2: the test is True at exactly one fifth
\* removed, and elsewhere it is the exact comparison.
outlier_ratio_lt(used, total) == 5 * used >= 4 * total

\* np.std(s) / np.mean(s) < c for a threshold c = <<num, den>>, the quotient
\* being 0 when the mean is 0: with n = len(s), S = sum(s) and
\* D = n * sum(x^2) - S^2 = n^2 * variance, std / mean = sqrt(D) / S, which
\* is at most 0 when the mean is negative
volatility_lt(s, c) ==
    LET n == Len(s)
        S == Sum(s)
        D == n * SumSq(s) - S * S
    IN  IF S = 0 THEN 0 < Num(c)
        ELSE IF S < 0 THEN 0 < Num(c)
        ELSE Den(c) * Den(c) * D < Num(c) * Num(c) * S * S

confidence_score(original_prices, used) ==
    LET total_points == Len(original_prices)
    IN  IF used >= 10 /\ volatility_lt(original_prices, <<3, 20>>)
           /\ outlier_ratio_lt(used, total_points) THEN "HIGH"
        ELSE IF used >= 5 /\ volatility_lt(original_prices, <<1, 4>>) THEN "MEDIUM"
        ELSE "LOW"

\* a blend with equal weights
blend_even(m, t) == <<Num(m) * Den(t) + Num(t) * Den(m), 2 * Den(m) * Den(t)>>

\* 0.6 * median_price + 0.4 * trimmed_avg
blend(m, t) == <<6 * Num(m) * Den(t) + 4 * Num(t) * Den(m), 10 * Den(m) * Den(t)>>

\* a fair_value that asks for 2 data points
fair_value_min2(s) ==
    IF Len(s) < 2 THEN Raise("Not enough data points")
    ELSE LET cleaned_prices == remove_outliers_iqr(s)
             median_price == np_median(cleaned_prices)
             trimmed_avg == trimmed_mean(cleaned_prices, TRIM_RATIO_DEFAULT)
         IN  Return([fair_value |-> round2(blend(median_price, trimmed_avg)),
                     median |-> round2(median_price),
                     trimmed_mean |-> round2(trimmed_avg),
                     data_points_used |-> Len(cleaned_prices),
                     confidence |-> confidence_score(s, Len(cleaned_prices))])

fair_value(s) ==
    IF Len(s) < 3 THEN Raise("Not enough data points")
    ELSE LET cleaned_prices == remove_outliers_iqr(s)
         IN  IF Len(cleaned_prices) = 0
             THEN Raise("All data points considered outliers")
             ELSE LET median_price == np_median(cleaned_prices)
                      trimmed_avg == trimmed_mean(cleaned_prices, TRIM_RATIO_DEFAULT)
                  IN  Return([fair_value |-> round2(blend(median_price, trimmed_avg)),
                              median |-> round2(median_price),
                              trimmed_mean |-> round2(trimmed_avg),
                              data_points_used |-> Len(cleaned_prices),
                              confidence |-> confidence_score(s, Len(cleaned_prices))])

-----------------------------------------------------------------------------
(* The estimator called as a library: one call per behaviour, its arguments *)
(* drawn by FnInit.                                                         *)

\* n copies of v
Run(v, n) == [i \in 1..n |-> v]

Swap(s, i, j) ==
    [k \in 1..Len(s) |-> IF k = i THEN s[j] ELSE IF k = j THEN s[i] ELSE s[k]]

Reverse(s) == [k \in 1..Len(s) |-> s[Len(s) + 1 - k]]

\* the sample of pricing.py's __main__, in hundreds: every price of it is a
\* multiple of 100, and the observations kept and the confidence do not
\* change with the unit
SAMPLE_PRICES == <<480, 500, 520, 510, 495, 490, 700, 300, 505, 498>>

ShortLists == UNION {[1..n -> Values] : n \in 0..MaxLen}

TwoRuns(V, maxA, maxB) ==
    {Run(v, a) \o Run(w, b) : v \in V, w \in V, a \in 1..maxA, b \in 0..maxB}

LongLists == {s \in TwoRuns(Values, MaxRun, MaxTail) : Len(s) > MaxLen}

Permutations(n) == {f \in [1..n -> 1..n] : \A i, j \in 1..n : f[i] = f[j] => i = j}

PermutationsUpTo == [n \in 0..MaxLen |-> Permutations(n)]

\* the orders the same observations are given in: every order of a short
\* list; of a long one, itself, its reverse and its ends exchanged
Rearrangements(s) ==
    IF Len(s) <= MaxLen
    THEN {[i \in 1..Len(s) |-> s[f[i]]] : f \in PermutationsUpTo[Len(s)]}
    ELSE {s, Reverse(s), Swap(s, 1, Len(s))}

TrimRatios == {<<0, 1>>, <<1, 10>>, <<1, 4>>, <<1, 2>>, <<6, 10>>, <<1, 1>>}

\* observations the lists given to confidence_score are made of
ConfValues == {-4, 0, 3, 5, 17, 23}

ConfLists == {s \in TwoRuns(ConfValues, MaxRun, MaxRun) : Len(s) <= MaxRun + MaxTail}

NoReturn == [raised |-> "", value |-> <<>>]

AppIdle ==
    /\ price_estimates = <<>>
    /\ fair_value_history = <<>>
    /\ response = [op |-> "", item |-> "", n_prices |-> 0, status |-> 0,
                   text |-> "", result |-> <<>>]

FnInit ==
    /\ AppIdle
    /\ pc = "call"
    /\ ret = NoReturn
    /\ ret_permuted = NoReturn
    /\ \/ /\ fn = "fair_value"
          /\ prices \in ShortLists \cup LongLists \cup {SAMPLE_PRICES}
          /\ permuted \in Rearrangements(prices)
          /\ trim_ratio = TRIM_RATIO_DEFAULT
          /\ used_points = 0
       \/ /\ fn = "remove_outliers_iqr"
          /\ prices \in (ShortLists \ {<<>>}) \cup LongLists \cup {SAMPLE_PRICES}
          /\ permuted = prices
          /\ trim_ratio = TRIM_RATIO_DEFAULT
          /\ used_points = 0
       \/ /\ fn = "trimmed_mean"
          /\ \/ prices \in ShortLists \ {<<>>} /\ trim_ratio \in TrimRatios
             \/ prices \in LongLists \cup {SAMPLE_PRICES} /\ trim_ratio = TRIM_RATIO_DEFAULT
          /\ permuted = prices
          /\ used_points = 0
       \/ /\ fn = "confidence_score"
          /\ prices \in ConfLists
          /\ used_points \in 0..Len(prices)
          /\ permuted = prices
          /\ trim_ratio = TRIM_RATIO_DEFAULT

call_fair_value ==
    /\ pc = "call" /\ fn = "fair_value"
    /\ ret' = fair_value(prices)
    /\ pc' = "again"
    /\ UNCHANGED <<fn, prices, permuted, trim_ratio, used_points, ret_permuted>>
    /\ UNCHANGED app_vars

call_fair_value_again ==
    /\ pc = "again" /\ fn = "fair_value"
    /\ ret_permuted' = fair_value(permuted)
    /\ pc' = "done"
    /\ UNCHANGED <<fn, prices, permuted, trim_ratio, used_points, ret>>
    /\ UNCHANGED app_vars

call_remove_outliers_iqr ==
    /\ pc = "call" /\ fn = "remove_outliers_iqr"
    /\ ret' = Return(remove_outliers_iqr(prices))
    /\ pc' = "done"
    /\ UNCHANGED <<fn, prices, permuted, trim_ratio, used_points, ret_permuted>>
    /\ UNCHANGED app_vars

call_trimmed_mean ==
    /\ pc = "call" /\ fn = "trimmed_mean"
    /\ ret' = Return(trimmed_mean(prices, trim_ratio))
    /\ pc' = "done"
    /\ UNCHANGED <<fn, prices, permuted, trim_ratio, used_points, ret_permuted>>
    /\ UNCHANGED app_vars

call_confidence_score ==
    /\ pc = "call" /\ fn = "confidence_score"
    /\ ret' = Return(confidence_score(prices, used_points))
    /\ pc' = "done"
    /\ UNCHANGED <<fn, prices, permuted, trim_ratio, used_points, ret_permuted>>
    /\ UNCHANGED app_vars

FnNext ==
    \/ call_fair_value
    \/ call_fair_value_again
    \/ call_remove_outliers_iqr
    \/ call_trimmed_mean
    \/ call_confidence_score

SpecFn == FnInit /\ [][FnNext]_vars

-----------------------------------------------------------------------------
(* main.py: the requests that write to the database. *)

\* item_id.lower().strip()
lower_strip(item_id) ==
    CASE item_id = " Gold " -> "gold"
      [] OTHER -> item_id

\* the item_id fields and path parameters the requests carry
ItemIds == {"gold", " Gold ", "rice"}

\* the floats the price_value field carries
PriceValues == {NaN, -1, 0, 1, 2, 10}

\* the floats the price_unit field carries
PriceUnits == {1, HUGE}

Abs(x) == IF x < 0 THEN -x ELSE x
Sign(x) == IF x < 0 THEN -1 ELSE IF x > 0 THEN 1 ELSE 0

\* price_value * price_unit on floats
float_mul(a, b) ==
    IF IsNaN(a) \/ IsNaN(b) THEN NaN
    ELSE IF Abs(a) >= HUGE \/ Abs(b) >= HUGE THEN Sign(a) * Sign(b) * HUGE
    ELSE a * b

\* price <= 0: False on NaN
float_le_zero(x) == ~IsNaN(x) /\ x <= 0

\* price > 1_000_000_000_000: False on NaN; every finite price of the model
\* other than HUGE is below the limit
float_gt_limit(x) == ~IsNaN(x) /\ x >= HUGE

\* db.query(PriceEstimate.price).filter(PriceEstimate.item_id == item).all()
RECURSIVE prices_of(_, _)
prices_of(rows, item) ==
    IF rows = <<>> THEN <<>>
    ELSE IF Head(rows).item_id = item
         THEN <<Head(rows).price>> \o prices_of(Tail(rows), item)
         ELSE prices_of(Tail(rows), item)

NoResponse == [op |-> "", item |-> "", n_prices |-> 0, status |-> 0,
               text |-> "", result |-> <<>>]

HistoryRow(item, r) ==
    [item_id |-> item, fair_value |-> r.fair_value, median |-> r.median,
     trimmed_mean |-> r.trimmed_mean, data_points_used |-> r.data_points_used,
     confidence |-> r.confidence]

FnIdle ==
    /\ fn = "" /\ prices = <<>> /\ permuted = <<>>
    /\ trim_ratio = TRIM_RATIO_DEFAULT /\ used_points = 0
    /\ pc = "" /\ ret = NoReturn /\ ret_permuted = NoReturn

Init ==
    /\ price_estimates = <<>>
    /\ fair_value_history = <<>>
    /\ response = NoResponse
    /\ FnIdle

\* POST /submit
submit_price(item_id, price_value, price_unit) ==
    LET item == lower_strip(item_id)
        price == float_mul(price_value, price_unit)
        answer(status, text) ==
            [op |-> "submit", item |-> item, n_prices |-> 0, status |-> status,
             text |-> text, result |-> <<>>]
    IN  /\ Len(price_estimates) < MaxRows
        /\ IF float_le_zero(price)
           THEN /\ response' = answer(400, "Invalid price")
                /\ UNCHANGED price_estimates
           ELSE IF float_gt_limit(price)
           THEN /\ response' = answer(400, "Price unrealistically high")
                /\ UNCHANGED price_estimates
           ELSE /\ price_estimates' =
                       Append(price_estimates, [item_id |-> item, price |-> price])
                /\ response' = answer(200, "Price submitted successfully")
        /\ UNCHANGED fair_value_history
        /\ UNCHANGED fn_vars

\* GET /api/fair-value/{item_id}
api_fair_value(item_id) ==
    LET item == lower_strip(item_id)
        item_prices == prices_of(price_estimates, item)
        answer(status, text, result) ==
            [op |-> "api_fair_value", item |-> item, n_prices |-> Len(item_prices),
             status |-> status, text |-> text, result |-> result]
    IN  /\ Len(fair_value_history) < MaxHistory
        /\ IF Len(item_prices) < 3
           THEN /\ response' = answer(200, "Not enough data", <<>>)
                /\ UNCHANGED fair_value_history
           ELSE LET result == fair_value(item_prices)
                IN  IF result.raised # ""
                    THEN \* the ValueError leaves the handler: nothing is added
                         /\ response' = answer(500, result.raised, <<>>)
                         /\ UNCHANGED fair_value_history
                    ELSE /\ fair_value_history' =
                                Append(fair_value_history,
                                       HistoryRow(item, result.value[1]))
                         /\ response' = answer(200, "", result.value)
        /\ UNCHANGED price_estimates
        /\ UNCHANGED fn_vars

Next ==
    \/ \E item_id \in ItemIds, price_value \in PriceValues, price_unit \in PriceUnits :
           submit_price(item_id, price_value, price_unit)
    \/ \E item_id \in ItemIds : api_fair_value(item_id)

Spec == Init /\ [][Next]_vars

-----------------------------------------------------------------------------
(* The statistics as the specification words them, by order statistics and *)
(* counting rather than by sorting.                                         *)

Range(s) == {s[i] : i \in 1..Len(s)}

CountLt(s, v) == Cardinality({i \in 1..Len(s) : s[i] < v})
CountLe(s, v) == Cardinality({i \in 1..Len(s) : s[i] <= v})

\* the j-th smallest observation of s, 1 <= j <= Len(s)
OrderStat(s, j) == CHOOSE v \in Range(s) : CountLt(s, v) < j /\ j <= CountLe(s, v)

RECURSIVE SumOrderStats(_, _, _)
SumOrderStats(s, lo, hi) ==
    IF lo > hi THEN 0 ELSE OrderStat(s, lo) + SumOrderStats(s, lo + 1, hi)

\* four times the quartile q (1 or 3) of s: position q * (n - 1) / 4 among the
\* order statistics, interpolated linearly
Quartile4(s, q) ==
    LET n == Len(s)
        k == (q * (n - 1)) \div 4
        r == (q * (n - 1)) % 4
    IN  IF r = 0 THEN 4 * OrderStat(s, k + 1)
        ELSE (4 - r) * OrderStat(s, k + 1) + r * OrderStat(s, k + 2)

\* Q1 - 1.5 * IQR <= x <= Q3 + 1.5 * IQR, every term multiplied by 8
WithinIqrBounds(s, x) ==
    LET q1 == Quartile4(s, 1)
        q3 == Quartile4(s, 3)
    IN  /\ 8 * x >= 2 * q1 - 3 * (q3 - q1)
        /\ 8 * x <= 2 * q3 + 3 * (q3 - q1)

Inliers(s) == LET keep(x) == WithinIqrBounds(s, x) IN SelectSeq(s, keep)

\* the median of a non-empty s
MedianOf(s) ==
    LET n == Len(s)
    IN  <<OrderStat(s, (n + 1) \div 2) + OrderStat(s, n \div 2 + 1), 2>>

\* the mean of s with its floor(n * ratio) smallest and largest observations
\* left out, or of all of s when that would leave nothing
TrimmedMeanOf(s, ratio) ==
    LET n == Len(s)
        trim_count == (n * Num(ratio)) \div Den(ratio)
    IN  IF n <= 2 * trim_count THEN <<SumOrderStats(s, 1, n), n>>
        ELSE <<SumOrderStats(s, trim_count + 1, n - trim_count), n - 2 * trim_count>>

\* f hundredths is a nearest hundredth of the rational x
NearestHundredth(f, x) ==
    LET d == 100 * Num(x) - f * Den(x)
    IN  2 * d <= Den(x) /\ -2 * d <= Den(x)

AllEqual(s) == \A i \in 1..Len(s) : s[i] = s[1]

Returned(f) == fn = f /\ pc # "call"

-----------------------------------------------------------------------------
(* Claims. *)

\* C1: on every list of fewer than 3 observations fair_value raises
\* ValueError("Not enough data points") and returns no result record
C1_InsufficientData ==
    (Returned("fair_value") /\ Len(prices) < 3)
        => ret = Raise("Not enough data points")

C1_Witness ==
    /\ Returned("fair_value") /\ Len(prices) = 2
    /\ ret.raised = "Not enough data points" /\ ret.value = <<>>

\* C2: on the sample of pricing.py outlier removal drops exactly 70000 and
\* 30000 (700 and 300 in hundreds), fair_value reports data_points_used = 8
\* and the confidence is MEDIUM
C2_Sample ==
    /\ (Returned("remove_outliers_iqr") /\ prices = SAMPLE_PRICES)
           => ret = Return(<<480, 500, 520, 510, 495, 490, 505, 498>>)
    /\ (Returned("fair_value") /\ prices = SAMPLE_PRICES)
           => /\ ret.raised = ""
              /\ ret.value[1].data_points_used = 8
              /\ ret.value[1].confidence = "MEDIUM"

C2_Witness ==
    /\ Returned("fair_value") /\ prices = SAMPLE_PRICES
    /\ ret.raised = "" /\ ret.value[1].data_points_used = 8

\* C3: on n >= 3 observations all equal to v fair_value keeps all n and
\* returns median = trimmed_mean = fair_value = v; the confidence is HIGH when
\* n >= 10, MEDIUM when 5 <= n < 10, LOW when n < 5
C3_AllEqual ==
    (Returned("fair_value") /\ Len(prices) >= 3 /\ AllEqual(prices))
        => ret = Return([fair_value |-> 100 * prices[1],
                         median |-> 100 * prices[1],
                         trimmed_mean |-> 100 * prices[1],
                         data_points_used |-> Len(prices),
                         confidence |-> IF Len(prices) >= 10 THEN "HIGH"
                                        ELSE IF Len(prices) >= 5 THEN "MEDIUM"
                                        ELSE "LOW"])

C3_Witness ==
    /\ Returned("fair_value") /\ Len(prices) >= 10 /\ AllEqual(prices)
    /\ prices[1] > 0
    /\ ret.raised = "" /\ ret.value[1].confidence = "HIGH"

ExactConfidence(s, used) ==
    IF /\ used >= 10
       /\ volatility_lt(s, <<3, 20>>)
       /\ 5 * (Len(s) - used) < Len(s)
    THEN "HIGH"
    ELSE IF used >= 5 /\ volatility_lt(s, <<1, 4>>) THEN "MEDIUM"
    ELSE "LOW"

\* C5: confidence_score, on the original observations, returns HIGH iff
\* used_points >= 10, volatility < 0.15 and 1 - used_points / total_points
\* < 0.20; otherwise MEDIUM iff used_points >= 5 and volatility < 0.25;
\* otherwise LOW; with exactly one fifth of the observations removed it never
\* returns HIGH
C5_ClaimedConfidence ==
    /\ (Returned("fair_value") /\ ret.raised = "")
           => /\ ret.value[1].confidence =
                     ExactConfidence(prices, ret.value[1].data_points_used)
              /\ 5 * ret.value[1].data_points_used = 4 * Len(prices)
                     => ret.value[1].confidence # "HIGH"
    /\ Returned("confidence_score")
           => /\ ret.value[1] = ExactConfidence(prices, used_points)
              /\ 5 * used_points = 4 * Len(prices) => ret.value[1] # "HIGH"

\* C6: remove_outliers_iqr keeps exactly the observations x with
\* Q1 - 1.5 * IQR <= x <= Q3 + 1.5 * IQR, each as often as the input holds it,
\* and data_points_used counts them
C6_ExactInliers ==
    /\ Returned("remove_outliers_iqr")
           => /\ ret.raised = ""
              /\ Len(ret.value[1]) <= Len(prices)
              /\ \A v \in Range(prices) \cup Range(ret.value[1]) :
                     Count(ret.value[1], v) =
                         IF WithinIqrBounds(prices, v) THEN Count(prices, v) ELSE 0
    /\ (Returned("fair_value") /\ ret.raised = "")
           => ret.value[1].data_points_used =
                  Cardinality({i \in 1..Len(prices) : WithinIqrBounds(prices, prices[i])})

C6_Witness ==
    /\ Returned("remove_outliers_iqr")
    /\ Len(ret.value[1]) < Len(prices) /\ Len(ret.value[1]) > 0
    /\ Quartile4(prices, 1) % 4 # 0

\* C7: trimmed_mean returns the mean of all n values when n <= 2 * trim_count,
\* trim_count = floor(n * r), and otherwise the mean of the sorted values
\* without the first and the last trim_count
C7_TrimmedMean ==
    Returned("trimmed_mean")
        => /\ ret.raised = ""
           /\ ret.value[1] = TrimmedMeanOf(prices, trim_ratio)

C7_Witness ==
    /\ Returned("trimmed_mean")
    /\ Len(prices) = 2 /\ trim_ratio = <<6, 10>> /\ prices[1] # prices[2]
    /\ ret.value[1] = <<prices[1] + prices[2], 2>>

\* C8: the fair_value field is 0.6 * m + 0.4 * t rounded to 2 decimals, m the
\* median and t the trimmed mean (ratio 0.10) of the cleaned set; the median
\* and trimmed_mean fields are m and t rounded to 2 decimals
C8_Blend ==
    (Returned("fair_value") /\ ret.raised = "")
        => LET c == Inliers(prices)
               m == MedianOf(c)
               t == TrimmedMeanOf(c, <<1, 10>>)
               r == ret.value[1]
           IN  /\ NearestHundredth(r.fair_value,
                      <<6 * Num(m) * Den(t) + 4 * Num(t) * Den(m), 10 * Den(m) * Den(t)>>)
               /\ NearestHundredth(r.median, m)
               /\ NearestHundredth(r.trimmed_mean, t)

C8_Witness ==
    /\ Returned("fair_value") /\ ret.raised = ""
    /\ ret.value[1].data_points_used < Len(prices)
    /\ ret.value[1].median # ret.value[1].trimmed_mean
    /\ ret.value[1].fair_value % 100 # 0
    /\ ret.value[1].trimmed_mean % 10 # 0

\* C9: on at least 3 observations remove_outliers_iqr keeps the central order
\* statistic(s), so fair_value never raises "All data points considered
\* outliers" and returns a record with data_points_used >= 1
C9_NeverAllOutliers ==
    /\ (Returned("remove_outliers_iqr") /\ Len(prices) >= 3)
           => /\ OrderStat(prices, (Len(prices) + 1) \div 2) \in Range(ret.value[1])
              /\ OrderStat(prices, Len(prices) \div 2 + 1) \in Range(ret.value[1])
    /\ (Returned("fair_value") /\ Len(prices) >= 3)
           => /\ ret.raised = ""
              /\ ret.value[1].data_points_used >= 1

C9_Witness ==
    /\ Returned("fair_value") /\ Len(prices) >= 3
    /\ ret.raised = "" /\ ret.value[1].data_points_used + 3 <= Len(prices)

\* C10: a fair-value request on fewer than 3 stored prices answers "Not
\* enough data"; one on at least 3 stored prices answers the result and
\* its row is the last of fair_value_history; every stored price satisfies
\* 0 < price <= 1,000,000,000,000
C10_ClaimedRequests ==
    /\ \A i \in 1..Len(price_estimates) :
           /\ ~IsNaN(price_estimates[i].price)
           /\ 0 < price_estimates[i].price
           /\ price_estimates[i].price < HUGE
    /\ (response.op = "api_fair_value" /\ response.n_prices < 3)
           => response.text = "Not enough data"
    /\ (response.op = "api_fair_value" /\ response.n_prices >= 3)
           => /\ response.status = 200 /\ Len(response.result) = 1
              /\ fair_value_history # <<>>
              /\ fair_value_history[Len(fair_value_history)] =
                     HistoryRow(response.item, response.result[1])

====
